---- MODULE Spec2Model ----
(***************************************************************************)
(* Blog API (FastAPI + SQLAlchemy on MySQL): the authors and posts tables, *)
(* the eleven request handlers of main.py and the scoped session of        *)
(* database.get_db.  Every request runs in its own session; a mutating     *)
(* handler first queries (its check) and later commits, and other requests *)
(* may commit in between.  A commit is atomic and is where the storage     *)
(* constraints of models.py (primary keys, the unique index on email, the  *)
(* foreign key posts.author_id -> authors.id ON DELETE CASCADE) are        *)
(* enforced.                                                               *)
(***************************************************************************)
EXTENDS Integers, FiniteSets, Sequences, TLC

\* ---------------------------------------------------------------- bounds
\* Author ids handed out by the auto-increment counter are 1..MaxAuthorId.
MaxAuthorId == 2
\* Post ids handed out by the auto-increment counter are 1..MaxPostId.
MaxPostId == 2
\* Requests in flight at the same time.
NumProcs == 2

Procs == 1..NumProcs
\* Validated AuthorCreate bodies.
AuthorBodies == {[name |-> "Ada", email |-> "ada@x"], [name |-> "Bob", email |-> "bob@x"]}
\* Validated PostCreate bodies, without author_id.
PostTexts == {[title |-> "Hi", content |-> "World"], [title |-> "Yo", content |-> "Moon"]}
AuthorIds == 1..MaxAuthorId
PostIds == 1..MaxPostId
\* Optional[int] query parameter: <<>> is None (omitted), <<v>> is supplied.
OptAuthorIds == {<<>>} \cup {<<v>> : v \in 0..MaxAuthorId}

VARIABLES
    authors,       \* rows of table authors: [id, name, email]
    posts,         \* rows of table posts: [id, title, content, author_id]
    nextAuthorId,  \* AUTO_INCREMENT counter of authors.id
    nextPostId,    \* AUTO_INCREMENT counter of posts.id
    pc,            \* per request slot: "idle", "handler", "commit", "finally"
    session,       \* per request slot: "none", "open", "closed"
    closes,        \* per request slot: db.close() calls of the current request
    req,           \* per request slot: the endpoint and its validated input
    loaded,        \* per request slot: the row the handler's query loaded
    resp           \* per request slot: the response of the current request

vars == <<authors, posts, nextAuthorId, nextPostId, pc, session, closes, req, loaded, resp>>
db == <<authors, posts, nextAuthorId, nextPostId>>

NoReq == [op |-> "none"]
NoRow == [id |-> 0]
NoResp == [status |-> 0, detail |-> "", body |-> {}]

\* ------------------------------------------------------------- queries
\* The query without its filter: every author row matches.
AuthorByIdUnfiltered(id) == authors
\* db.query(models.Author).filter(models.Author.id == id)
AuthorById(id) == {a \in authors : a.id = id}
\* The filter on the wrong column.
AuthorByEmailWrongColumn(email) == {a \in authors : a.name = email}
\* db.query(models.Author).filter(models.Author.email == email)
AuthorByEmail(email) == {a \in authors : a.email = email}
\* db.query(models.Post).filter(models.Post.id == id)
PostById(id) == {x \in posts : x.id = id}
\* db.query(models.Post).filter(models.Post.author_id == id)
PostsByAuthor(id) == {x \in posts : x.author_id = id}
\* .first(): the row of a query that has one
First(rows) == CHOOSE r \in rows : TRUE

\* Python truthiness of an Optional[int]: None and 0 are falsy.
Truthy(opt) == opt # <<>> /\ opt[1] # 0

\* ---------------------------------------------------------- get_db
\* db = SessionLocal(); yield db
GetDb(p) ==
    /\ pc[p] = "idle"
    /\ pc' = [pc EXCEPT ![p] = "handler"]
    /\ session' = [session EXCEPT ![p] = "open"]
    /\ closes' = [closes EXCEPT ![p] = 0]
    /\ UNCHANGED <<db, req, loaded, resp>>

\* get_db without try/finally: db.close() follows the yield only when the
\* handler returned normally.
ExitPcNoFinally(status) == IF status = 200 THEN "finally" ELSE "idle"
\* Where control goes when the handler returns or raises with `status`:
\* the generator's finally clause, whatever the status.
ExitPc(status) == "finally"

\* finally: db.close(); the request is over.
Close(p) ==
    /\ pc[p] = "finally"
    /\ pc' = [pc EXCEPT ![p] = "idle"]
    /\ session' = [session EXCEPT ![p] = "closed"]
    /\ closes' = [closes EXCEPT ![p] = closes[p] + 1]
    /\ req' = [req EXCEPT ![p] = NoReq]
    /\ resp' = [resp EXCEPT ![p] = NoResp]
    /\ UNCHANGED <<db, loaded>>

\* The handler of request slot p answers (returns, or raises HTTPException
\* or a storage error) with `status`, the message `detail` and the rows
\* `body` of the response model (one row for an object, a set for a list).
Answer(p, r, status, detail, body) ==
    /\ pc' = [pc EXCEPT ![p] = ExitPc(status)]
    /\ req' = [req EXCEPT ![p] = r]
    /\ resp' = [resp EXCEPT ![p] = [status |-> status, detail |-> detail, body |-> body]]
    /\ loaded' = [loaded EXCEPT ![p] = NoRow]
    /\ UNCHANGED <<session, closes>>

\* The handler's query passed its check; its writes wait for db.commit().
Pending(p, r, row) ==
    /\ pc' = [pc EXCEPT ![p] = "commit"]
    /\ req' = [req EXCEPT ![p] = r]
    /\ loaded' = [loaded EXCEPT ![p] = row]
    /\ UNCHANGED <<db, session, closes, resp>>

\* ------------------------------------------------- storage constraints
\* The column without unique=True.
UniqueEmailOkUnenforced(email, self) == TRUE
\* authors.email is unique=True: a row may take `email` only if no other
\* row (any id but `self`) holds it.
UniqueEmailOk(email, self) == \A a \in authors : a.email = email => a.id = self
\* The column without its ForeignKey.
ForeignKeyOkUnenforced(author_id) == TRUE
\* posts.author_id is ForeignKey("authors.id"): the parent row must exist.
ForeignKeyOk(author_id) == AuthorById(author_id) # {}
\* relationship(cascade="all, delete-orphan"): the flush loads author.posts
\* and deletes each of them before the author.
OrmCascade(ps, a) == {x \in ps : x.author_id # a}
\* ForeignKey(ondelete="CASCADE"): deleting the parent row deletes its children.
OnDeleteCascade(ps, a) == {x \in ps : x.author_id # a}
\* Neither cascade configured: the posts stay.
PostsAfterDeleteAuthorNoCascade(a) == posts
\* The posts table after db.delete(author); db.commit() for the author with id a:
\* the unit of work's deletes, then the engine's cascade if the author row
\* was still there to delete.
PostsAfterDeleteAuthor(a) ==
    IF AuthorById(a) # {}
    THEN OnDeleteCascade(OrmCascade(posts, a), a)
    ELSE OrmCascade(posts, a)

\* Requests whose INSERT is still to come; each takes one auto-increment id.
PendingInserts(op) == Cardinality({q \in Procs : pc[q] = "commit" /\ req[q].op = op})

\* ------------------------------------------------------ create_author
CreateAuthor(p) ==
    /\ pc[p] = "handler"
    /\ \E author \in AuthorBodies :
         LET r == [op |-> "create_author", name |-> author.name, email |-> author.email]
         IN  IF AuthorByEmail(author.email) # {}
             THEN /\ Answer(p, r, 400, "Email already registered", {})
                  /\ UNCHANGED db
             ELSE /\ nextAuthorId + PendingInserts("create_author") <= MaxAuthorId
                  /\ Pending(p, r, NoRow)

\* db.add(new_author); db.commit(); db.refresh(new_author); return new_author
\* A failed INSERT still takes its auto-increment value (InnoDB).
CreateAuthorCommit(p) ==
    /\ pc[p] = "commit"
    /\ req[p].op = "create_author"
    /\ nextAuthorId' = nextAuthorId + 1
    /\ UNCHANGED <<posts, nextPostId>>
    /\ IF UniqueEmailOk(req[p].email, 0)
       THEN LET row == [id |-> nextAuthorId, name |-> req[p].name, email |-> req[p].email]
            IN  /\ authors' = authors \cup {row}
                /\ Answer(p, req[p], 200, "", {row})
       ELSE /\ authors' = authors
            /\ Answer(p, req[p], 500, "IntegrityError", {})

\* -------------------------------------------------------- get_authors
GetAuthors(p) ==
    /\ pc[p] = "handler"
    /\ Answer(p, [op |-> "get_authors"], 200, "", authors)
    /\ UNCHANGED db

\* -------------------------------------------------- get_single_author
GetSingleAuthorResult(id) ==
    IF AuthorById(id) = {}
    THEN [status |-> 404, detail |-> "Author not found", body |-> {}]
    ELSE [status |-> 200, detail |-> "", body |-> {First(AuthorById(id))}]

GetSingleAuthor(p) ==
    /\ pc[p] = "handler"
    /\ \E id \in AuthorIds :
         LET res == GetSingleAuthorResult(id)
         IN  Answer(p, [op |-> "get_single_author", id |-> id],
                    res.status, res.detail, res.body)
    /\ UNCHANGED db

\* ------------------------------------------------------ update_author
UpdateAuthor(p) ==
    /\ pc[p] = "handler"
    /\ \E id \in AuthorIds, author_update \in AuthorBodies :
         LET r == [op |-> "update_author", id |-> id, name |-> author_update.name,
                   email |-> author_update.email]
         IN  IF AuthorById(id) = {}
             THEN /\ Answer(p, r, 404, "Author not found", {})
                  /\ UNCHANGED db
             ELSE Pending(p, r, First(AuthorById(id)))

\* author.name = author_update.name; author.email = author_update.email:
\* the row the flush leaves, as for a post.
UpdatedAuthor(cur, old, r) ==
    [id |-> cur.id,
     name |-> IF r.name # old.name THEN r.name ELSE cur.name,
     email |-> IF r.email # old.email THEN r.email ELSE cur.email]

\* author.name = ...; author.email = ...; db.commit(); db.refresh(author)
\* The flush UPDATEs the columns whose value differs from the loaded one,
\* WHERE id = the loaded id; a row that is gone is a StaleDataError (or a
\* failed refresh), a taken email an IntegrityError.
UpdateAuthorCommit(p) ==
    /\ pc[p] = "commit"
    /\ req[p].op = "update_author"
    /\ UNCHANGED <<posts, nextAuthorId, nextPostId>>
    /\ LET old == loaded[p]
           cur == AuthorById(old.id)
           setEmail == req[p].email # old.email
       IN  IF cur = {}
           THEN /\ authors' = authors
                /\ Answer(p, req[p], 500, "StaleDataError", {})
           ELSE IF setEmail /\ ~UniqueEmailOk(req[p].email, old.id)
           THEN /\ authors' = authors
                /\ Answer(p, req[p], 500, "IntegrityError", {})
           ELSE LET row == UpdatedAuthor(First(cur), old, req[p])
                IN  /\ authors' = (authors \ cur) \cup {row}
                    /\ Answer(p, req[p], 200, "", {row})

\* ------------------------------------------------------ delete_author
DeleteAuthor(p) ==
    /\ pc[p] = "handler"
    /\ \E id \in AuthorIds :
         LET r == [op |-> "delete_author", id |-> id]
         IN  IF AuthorById(id) = {}
             THEN /\ Answer(p, r, 404, "Author not found", {})
                  /\ UNCHANGED db
             ELSE Pending(p, r, First(AuthorById(id)))

\* db.delete(author); db.commit(): one transaction deletes the author's
\* posts and the author (a DELETE that matches no row only warns).
DeleteAuthorCommit(p) ==
    /\ pc[p] = "commit"
    /\ req[p].op = "delete_author"
    /\ authors' = authors \ AuthorById(loaded[p].id)
    /\ posts' = PostsAfterDeleteAuthor(loaded[p].id)
    /\ Answer(p, req[p], 200, "Author and associated posts deleted", {})
    /\ UNCHANGED <<nextAuthorId, nextPostId>>

\* ------------------------------------------------ get_posts_by_author
GetPostsByAuthor(p) ==
    /\ pc[p] = "handler"
    /\ \E id \in AuthorIds :
         LET r == [op |-> "get_posts_by_author", id |-> id]
         IN  IF AuthorById(id) = {}
             THEN Answer(p, r, 404, "Author not found", {})
             ELSE Answer(p, r, 200, "", PostsByAuthor(id))
    /\ UNCHANGED db

\* -------------------------------------------------------- create_post
CreatePost(p) ==
    /\ pc[p] = "handler"
    /\ \E post \in PostTexts, author_id \in AuthorIds :
         LET r == [op |-> "create_post", title |-> post.title, content |-> post.content,
                   author_id |-> author_id]
         IN  IF AuthorById(author_id) = {}
             THEN /\ Answer(p, r, 400, "Author ID does not exist", {})
                  /\ UNCHANGED db
             ELSE /\ nextPostId + PendingInserts("create_post") <= MaxPostId
                  /\ Pending(p, r, NoRow)

\* db.add(new_post); db.commit(); db.refresh(new_post); return new_post
CreatePostCommit(p) ==
    /\ pc[p] = "commit"
    /\ req[p].op = "create_post"
    /\ nextPostId' = nextPostId + 1
    /\ UNCHANGED <<authors, nextAuthorId>>
    /\ IF ForeignKeyOk(req[p].author_id)
       THEN LET row == [id |-> nextPostId, title |-> req[p].title,
                        content |-> req[p].content, author_id |-> req[p].author_id]
            IN  /\ posts' = posts \cup {row}
                /\ Answer(p, req[p], 200, "", {row})
       ELSE /\ posts' = posts
            /\ Answer(p, req[p], 500, "IntegrityError", {})

\* ---------------------------------------------------------- get_posts
GetPostsResult(author_id) ==
    IF Truthy(author_id) THEN PostsByAuthor(author_id[1]) ELSE posts

GetPosts(p) ==
    /\ pc[p] = "handler"
    /\ \E author_id \in OptAuthorIds :
         Answer(p, [op |-> "get_posts", author_id |-> author_id], 200, "",
                GetPostsResult(author_id))
    /\ UNCHANGED db

\* ---------------------------------------------------- get_single_post
\* The join on the wrong key.
JoinedAuthorWrongKey(post) == {a \in authors : a.id = post.id}
\* options(joinedload(models.Post.author)): LEFT OUTER JOIN authors
\* ON authors.id = posts.author_id
JoinedAuthor(post) == {a \in authors : a.id = post.author_id}

\* PostResponseDetailed needs an author: a post the join finds none for
\* fails response validation.
GetSinglePostResult(id) ==
    IF PostById(id) = {}
    THEN [status |-> 404, detail |-> "Post not found", body |-> {}]
    ELSE LET post == First(PostById(id))
         IN  IF JoinedAuthor(post) = {}
             THEN [status |-> 500, detail |-> "ResponseValidationError", body |-> {}]
             ELSE [status |-> 200, detail |-> "",
                   body |-> {[id |-> post.id, title |-> post.title,
                              content |-> post.content, author_id |-> post.author_id,
                              author |-> First(JoinedAuthor(post))]}]

GetSinglePost(p) ==
    /\ pc[p] = "handler"
    /\ \E id \in PostIds :
         LET res == GetSinglePostResult(id)
         IN  Answer(p, [op |-> "get_single_post", id |-> id],
                    res.status, res.detail, res.body)
    /\ UNCHANGED db

\* -------------------------------------------------------- update_post
UpdatePost(p) ==
    /\ pc[p] = "handler"
    /\ \E id \in PostIds, post_update \in PostTexts, author_id \in {0, MaxAuthorId} :
         LET r == [op |-> "update_post", id |-> id, title |-> post_update.title,
                   content |-> post_update.content, author_id |-> author_id]
         IN  IF PostById(id) = {}
             THEN /\ Answer(p, r, 404, "Post not found", {})
                  /\ UNCHANGED db
             ELSE Pending(p, r, First(PostById(id)))

\* The handler also assigning post.author_id = post_update.author_id.
UpdatedPostReassigns(cur, old, r) ==
    [id |-> cur.id,
     title |-> IF r.title # old.title THEN r.title ELSE cur.title,
     content |-> IF r.content # old.content THEN r.content ELSE cur.content,
     author_id |-> r.author_id]
\* post.title = post_update.title; post.content = post_update.content:
\* the row the flush leaves, given the stored row `cur`, the loaded row `old`
\* and the request r. A column is written when its new value differs from
\* the loaded one; author_id is never assigned.
UpdatedPost(cur, old, r) ==
    [id |-> cur.id,
     title |-> IF r.title # old.title THEN r.title ELSE cur.title,
     content |-> IF r.content # old.content THEN r.content ELSE cur.content,
     author_id |-> cur.author_id]

\* post.title = ...; post.content = ...; db.commit(); db.refresh(post)
UpdatePostCommit(p) ==
    /\ pc[p] = "commit"
    /\ req[p].op = "update_post"
    /\ UNCHANGED <<authors, nextAuthorId, nextPostId>>
    /\ LET old == loaded[p]
           cur == PostById(old.id)
       IN  IF cur = {}
           THEN /\ posts' = posts
                /\ Answer(p, req[p], 500, "StaleDataError", {})
           ELSE LET row == UpdatedPost(First(cur), old, req[p])
                IN  /\ posts' = (posts \ cur) \cup {row}
                    /\ Answer(p, req[p], 200, "", {row})

\* -------------------------------------------------------- delete_post
DeletePost(p) ==
    /\ pc[p] = "handler"
    /\ \E id \in PostIds :
         LET r == [op |-> "delete_post", id |-> id]
         IN  IF PostById(id) = {}
             THEN /\ Answer(p, r, 404, "Post not found", {})
                  /\ UNCHANGED db
             ELSE Pending(p, r, First(PostById(id)))

\* db.delete(post); db.commit()
DeletePostCommit(p) ==
    /\ pc[p] = "commit"
    /\ req[p].op = "delete_post"
    /\ posts' = posts \ PostById(loaded[p].id)
    /\ Answer(p, req[p], 200, "Post deleted", {})
    /\ UNCHANGED <<authors, nextAuthorId, nextPostId>>

\* ------------------------------------------------------ specification
Init ==
    /\ authors = {}
    /\ posts = {}
    /\ nextAuthorId = 1
    /\ nextPostId = 1
    /\ pc = [p \in Procs |-> "idle"]
    /\ session = [p \in Procs |-> "none"]
    /\ closes = [p \in Procs |-> 0]
    /\ req = [p \in Procs |-> NoReq]
    /\ loaded = [p \in Procs |-> NoRow]
    /\ resp = [p \in Procs |-> NoResp]

\* What a request that holds a session does next: its handler's query, its
\* commit, or the finally clause of get_db.
Handle(p) ==
    \/ CreateAuthor(p)
    \/ CreateAuthorCommit(p)
    \/ GetAuthors(p)
    \/ GetSingleAuthor(p)
    \/ UpdateAuthor(p)
    \/ UpdateAuthorCommit(p)
    \/ DeleteAuthor(p)
    \/ DeleteAuthorCommit(p)
    \/ GetPostsByAuthor(p)
    \/ CreatePost(p)
    \/ CreatePostCommit(p)
    \/ GetPosts(p)
    \/ GetSinglePost(p)
    \/ UpdatePost(p)
    \/ UpdatePostCommit(p)
    \/ DeletePost(p)
    \/ DeletePostCommit(p)
    \/ Close(p)

\* Any number of requests (up to NumProcs) in flight, their queries and
\* commits interleaved.
Next == \E p \in Procs : GetDb(p) \/ Handle(p)

Spec == Init /\ [][Next]_vars

\* One request at a time: a request is taken up when no other is in flight.
SeqNext ==
    \E p \in Procs :
        \/ GetDb(p) /\ \A q \in Procs : pc[q] = "idle"
        \/ Handle(p)

SeqSpec == Init /\ [][SeqNext]_vars

\* Once a request holds a session the framework runs its handler and then
\* the dependency's finally clause to completion; new requests need not come.
FairSeqSpec == SeqSpec /\ \A p \in Procs : WF_vars(Handle(p))

\* ------------------------------------------------------------ properties
\* The step in which request slot p's handler runs its query (its check).
Checks(p, op) == pc[p] = "handler" /\ pc'[p] # "handler" /\ req'[p].op = op
\* The step in which request slot p's handler commits.
Commits(p, op) == pc[p] = "commit" /\ pc'[p] # "commit" /\ req[p].op = op
\* Request slot p has been answered `status` on endpoint `op`.
Answered(p, op, status) == pc[p] = "finally" /\ req[p].op = op /\ resp[p].status = status

\* C1: referential integrity. In every reachable state, whatever the
\* interleaving of the requests, every stored post's author_id is the id of
\* a stored author.
ReferentialIntegrity == \A x \in posts : \E a \in authors : a.id = x.author_id

\* C1 witness: a create post raced with the delete of its author; the commit
\* of the post was refused and posts of another author are still stored.
ReferentialIntegrityWitness ==
    /\ \E p, q \in Procs : Answered(p, "delete_author", 200) /\ Answered(q, "create_post", 500)
    /\ posts # {}

\* C2: email uniqueness. In every reachable state no two stored authors have
\* the same email, update author included.
EmailUnique == \A a, b \in authors : a.email = b.email => a = b

\* C2 witness: an update author asked for the email of another author and
\* its commit was refused, both authors still stored.
EmailUniqueWitness ==
    /\ \E p \in Procs : Answered(p, "update_author", 500) /\ resp[p].detail = "IntegrityError"
    /\ Cardinality(authors) = 2

\* C3: cascade delete. The commit of delete author for the author with id a
\* answers 200 and, in that one step, removes the author and exactly the
\* posts with author_id = a; get post by id then answers 404 for each of
\* them, and the posts of other authors are as they were.
CascadeDelete ==
    [][\A p \in Procs : Commits(p, "delete_author") =>
         LET a == req[p].id
         IN  /\ resp'[p].status = 200
             /\ authors' = {b \in authors : b.id # a}
             /\ posts' = {x \in posts : x.author_id # a}
             /\ \A x \in posts : x.author_id = a => GetSinglePostResult(x.id)'.status = 404
             /\ nextAuthorId' = nextAuthorId /\ nextPostId' = nextPostId]_vars

\* C3 witness: a delete author has committed, it left a post of another
\* author, and fewer posts are stored than were created.
CascadeDeleteWitness ==
    /\ \E p \in Procs : Answered(p, "delete_author", 200)
    /\ posts # {}
    /\ Cardinality(posts) < nextPostId - 1
    /\ \A x \in posts : x.author_id = MaxAuthorId

\* C4: create author with an email a stored author has answers 400 "Email
\* already registered" and leaves both tables and both id counters as they were.
DuplicateEmailRejected ==
    [][\A p \in Procs :
         (Checks(p, "create_author") /\ \E a \in authors : a.email = req'[p].email) =>
             /\ resp'[p].status = 400
             /\ resp'[p].detail = "Email already registered"
             /\ pc'[p] = "finally"
             /\ db' = db]_vars

\* C4 witness: a create author has been answered 400.
DuplicateEmailRejectedWitness == \E p \in Procs : Answered(p, "create_author", 400)

\* C5: create post with an author_id that is the id of no stored author
\* answers 400 "Author ID does not exist" and leaves both tables as they were.
UnknownAuthorRejected ==
    [][\A p \in Procs :
         (Checks(p, "create_post") /\ ~\E a \in authors : a.id = req'[p].author_id) =>
             /\ resp'[p].status = 400
             /\ resp'[p].detail = "Author ID does not exist"
             /\ pc'[p] = "finally"
             /\ db' = db]_vars

\* C5 witness: a create post has been answered 400 while another author is stored.
UnknownAuthorRejectedWitness ==
    /\ \E p \in Procs : Answered(p, "create_post", 400)
    /\ authors # {}

\* C6: list posts with author_id supplied returns exactly the stored posts
\* with that author_id, for every value supplied (0 included); all posts
\* are returned only when the parameter is omitted.
FilterExact ==
    [][\A p \in Procs : Checks(p, "get_posts") =>
         /\ resp'[p].status = 200
         /\ resp'[p].body = IF req'[p].author_id = <<>>
                            THEN posts
                            ELSE {x \in posts : x.author_id = req'[p].author_id[1]}]_vars

\* C7: a create author or create post that is rejected is answered 400,
\* never with a storage error (500), whatever the interleaving.
RejectedWith400 ==
    \A p \in Procs :
        (pc[p] = "finally" /\ req[p].op \in {"create_author", "create_post"}) =>
            resp[p].status \in {200, 400}

\* C8: in every reachable state, get post by id answers 404 for an id that
\* is not stored and, for a stored post, 200 with the post's fields and an
\* embedded author equal to what get author by id answers for its author_id.
EmbeddedAuthorMatches ==
    \A id \in PostIds :
        IF \E x \in posts : x.id = id
        THEN LET x == CHOOSE y \in posts : y.id = id
                 res == GetSinglePostResult(id)
                 direct == GetSingleAuthorResult(x.author_id)
             IN  /\ res.status = 200
                 /\ direct.status = 200
                 /\ Cardinality(res.body) = 1
                 /\ \A b \in res.body :
                      /\ b.id = x.id /\ b.title = x.title
                      /\ b.content = x.content /\ b.author_id = x.author_id
                      /\ direct.body = {b.author}
        ELSE GetSinglePostResult(id).status = 404

\* C8 witness: a get post by id has been answered 200 for a post whose id
\* differs from its author's.
EmbeddedAuthorMatchesWitness ==
    \E p \in Procs :
        /\ Answered(p, "get_single_post", 200)
        /\ \E b \in resp[p].body : b.id # b.author_id /\ b.author.id = b.author_id

\* C9: update post leaves every author, every other post, the set of post
\* ids and the post's own author_id as they were, whatever author_id the
\* body carries, and it is not rejected for that author_id; the post takes
\* the body's title and content; for an id that is not stored it answers
\* 404 and changes nothing.
UpdatePostFrame ==
    [][\A p \in Procs :
         /\ (Checks(p, "update_post") /\ ~\E x \in posts : x.id = req'[p].id) =>
                resp'[p].status = 404 /\ pc'[p] = "finally" /\ db' = db
         /\ (Checks(p, "update_post") /\ \E x \in posts : x.id = req'[p].id) =>
                pc'[p] = "commit" /\ db' = db
         /\ Commits(p, "update_post") =>
                /\ authors' = authors
                /\ nextAuthorId' = nextAuthorId /\ nextPostId' = nextPostId
                /\ {x \in posts' : x.id # req[p].id} = {x \in posts : x.id # req[p].id}
                /\ \A x \in posts : x.id = req[p].id =>
                     /\ resp'[p].status = 200
                     /\ \E y \in posts' : y.id = x.id /\ y.author_id = x.author_id
                     /\ Cardinality({y \in posts' : y.id = x.id}) = 1
                     /\ \E y \in posts' : /\ y.id = x.id
                                          /\ y.title = req[p].title
                                          /\ y.content = req[p].content]_vars

\* C9 witness: an update post whose body carried the id of no author has
\* been answered 200 and the post has the body's title.
UpdatePostFrameWitness ==
    \E p \in Procs :
        /\ Answered(p, "update_post", 200)
        /\ req[p].author_id = 0
        /\ \E x \in posts : x.id = req[p].id /\ x.title = req[p].title /\ x.author_id # 0

\* What C10 asks of every state: a request that is over holds no open
\* session, and a session is closed once and no more.
SessionSafe ==
    \A p \in Procs :
        /\ pc[p] = "idle" => session[p] # "open"
        /\ closes[p] <= 1
        /\ session[p] = "closed" <=> closes[p] = 1
\* C10: session release. SessionSafe holds in every state, and no session
\* stays open for ever: whatever the handler's exit (return, 400 or 404,
\* storage error on commit) its session is closed, once.
SessionReleased ==
    /\ SessionSafe
    /\ [][SessionSafe']_vars
    /\ \A p \in Procs : []<>(session[p] # "open")

\* C10 witness: one request is over with its session closed once, and the
\* next one, whose commit raised a storage error, is about to close its own.
SessionReleasedWitness ==
    \E p, q \in Procs :
        /\ pc[p] = "idle" /\ session[p] = "closed" /\ closes[p] = 1
        /\ pc[q] = "finally" /\ resp[q].status = 500 /\ session[q] = "open"
====
